---- MODULE Spec2Model ----
(***************************************************************************)
(* A model of tarantism, a tuple-mapping layer in front of a Tarantool     *)
(* store: field declaration and the process-wide creation counter          *)
(* (fields.py), schema collection (metaclasses.py), provisioning and the   *)
(* instance lifecycle (models.py), error translation (exceptions.py,       *)
(* core.py) and index-bound querying (queryset.py).                        *)
(*                                                                         *)
(* SpecDecl covers class declaration and provisioning, Spec the life of    *)
(* one instance of one declared model and the queries on that model.       *)
(***************************************************************************)
EXTENDS Integers, Sequences, FiniteSets, TLC

(***************************************************************************)
(* Bounds of the model.                                                    *)
(***************************************************************************)
\* field instances created in the process (bounds BaseField.creation_counter)
MaxCreated == 2
\* model classes declared in the process
MaxModels == 2
\* field names listed in one create_index call
MaxParts == 2
\* indexes the Store agrees to hold
MaxIndexes == 1

(***************************************************************************)
(* Python values.  Every value is a pair <<type tag, payload>>; the        *)
(* payload is an integer, but for a list (a sequence) and a dict (its key  *)
(* set).                                                                   *)
(***************************************************************************)
None == <<"none", 0>>
PyInt(n) == <<"int", n>>
PyBool(b) == <<"bool", IF b THEN 1 ELSE 0>>
\* a string that is no numeral; PyStr(0) is the empty string
PyStr(n) == <<"str", n>>
\* the decimal numeral of n as a string: '1' for PyNumStr(1)
PyNumStr(n) == <<"numstr", n>>
\* an integer beyond 32 bits: above INT32_MAX (sign 1), below INT32_MIN (-1)
PyBig(sign) == <<"big", sign>>
PyList(s) == <<"list", s>>
\* a dict whose values are all True, as ListAsDictField.to_db builds
PyDict(keys) == <<"dict", keys>>
\* a datetime object, and the string strftime(DEFAULT_DATETIME_FORMAT) gives
PyDateTime(n) == <<"datetime", n>>
PyDateStr(n) == <<"datestr", n>>
\* a callable default, such as `lambda: []`
Producer == <<"producer", 1>>

\* Python truth value: None, 0, False, '', [] and {} are false
Truthy(v) ==
    IF v[1] \in {"int", "bool", "str"} THEN v[2] # 0
    ELSE IF v[1] = "list" THEN v[2] # <<>>
    ELSE IF v[1] = "dict" THEN v[2] # {}
    ELSE v[1] # "none"

\* v < w for integers, those beyond 32 bits included
Below(v, w) ==
    IF v[1] = "big" THEN v[2] < 0 /\ w # v
    ELSE IF w[1] = "big" THEN w[2] > 0
    ELSE v[2] < w[2]


Range(s) == {s[i] : i \in DOMAIN s}

\* the orderings of a finite set
Perms(S) == {s \in [1..Cardinality(S) -> S] : Range(s) = S}

\* duplicate-free sequences over S of length 1..n
DistinctSeqs(S, n) ==
    UNION {{s \in [1..k -> S] : Cardinality(Range(s)) = k} : k \in 1..n}

(***************************************************************************)
(* Store error codes named by exceptions.py.                               *)
(***************************************************************************)
ER_INDEX_EXISTS == 85
ER_SPACE_EXISTS == 10
ER_IGNORABLE == 32
\* a Store error code exceptions.py does not name
ER_OTHER == ER_IGNORABLE + 1

INT32_MIN == -2147483647 - 1
INT32_MAX == 2147483647

Names == {"a", "b"}
Kinds ==
    {"Num32Field", "BooleanField", "ListField", "ListAsDictField",
     "DateTimeField"}
\* the field classes the declaration steps choose from
DeclKinds == {"Num32Field", "ListField"}

(***************************************************************************)
(* fields.py: field construction.                                          *)
(***************************************************************************)
\* tarantool_index_type of a field class
tarantool_index_type(kind) ==
    IF kind = "Num32Field" THEN "integer"
    ELSE IF kind = "DateTimeField" THEN "string"
    ELSE "scalar"

\* BaseField.__init__: counter is BaseField.creation_counter at the call
BaseField_init(kind, required, default, primary_key, db_index, counter) ==
    [kind |-> kind,
     name |-> "",
     required |-> required,
     default |-> default,
     primary_key |-> primary_key,
     db_index |-> IF primary_key THEN PyInt(0) ELSE db_index,
     min_value |-> None,
     max_value |-> None,
     creation_counter |-> counter]

\* Num32Field.__init__: `min_value or MIN`, `max_value or MAX`, range check
Num32Field_bounds(min_value, max_value) ==
    LET lo == IF Truthy(min_value) THEN min_value ELSE PyInt(INT32_MIN)
        hi == IF Truthy(max_value) THEN max_value ELSE PyInt(INT32_MAX)
    IN  [raises |-> Below(lo, PyInt(INT32_MIN)) \/ Below(PyInt(INT32_MAX), hi),
         min_value |-> lo, max_value |-> hi]

\* Num32Field.__init__(min_value, max_value, **kwargs): kw holds the keywords
\* passed on to BaseField.__init__
Num32Field_init(min_value, max_value, kw, counter) ==
    LET b == Num32Field_bounds(min_value, max_value)
    IN  [BaseField_init("Num32Field", kw.required, kw.default, kw.primary_key,
                        kw.db_index, counter)
            EXCEPT !.min_value = b.min_value, !.max_value = b.max_value]

\* ListField.__init__ decrements BaseField.creation_counter before the base
\* constructor reads it; the default is the producer `lambda: []`
ListField_counter(counter) == counter - 1

\* the constructor call `Kind(required=..., primary_key=..., db_index=...)`
NewField(kind, required, primary_key, db_index, max_value, counter) ==
    IF kind = "Num32Field"
    THEN Num32Field_init(None, max_value,
                         [required |-> required, default |-> None,
                          primary_key |-> primary_key, db_index |-> db_index],
                         counter)
    ELSE IF kind \in {"ListField", "ListAsDictField"}
    THEN BaseField_init(kind, required, Producer, primary_key, db_index,
                        ListField_counter(counter))
    ELSE BaseField_init(kind, required, None, primary_key, db_index, counter)

\* BaseField.creation_counter after the constructor returned
CounterAfter(kind, counter) ==
    IF kind \in {"ListField", "ListAsDictField"}
    THEN ListField_counter(counter) + 1 ELSE counter + 1

(***************************************************************************)
(* metaclasses.py: schema collection.  attrs is the namespace of the class *)
(* body; the metaclass stamps each field with its attribute name, stores   *)
(* them as _fields, moves meta to _meta and passes every other attribute   *)
(* on unchanged.  It computes no _fields_ordered: a class has that         *)
(* attribute only when its body declares it (has_fo).                      *)
(***************************************************************************)
NoFields == [n \in {} |-> None]

ModelMetaclass_new(body, meta, has_fo, fo) ==
    [fields |-> [n \in DOMAIN body |-> [body[n] EXCEPT !.name = n]],
     meta |-> meta,
     has_fields_ordered |-> has_fo,
     fields_ordered |-> IF has_fo THEN fo ELSE <<>>]

\* what a class body may write as _fields_ordered: nothing, or its field
\* names in some order
FieldsOrderedChoices(body) ==
    {[has |-> FALSE, fo |-> <<>>]}
        \cup {[has |-> TRUE, fo |-> p] : p \in Perms(DOMAIN body)}

DefaultMeta == [space |-> "card", check_tuple_length |-> TRUE]

(***************************************************************************)
(* models.py / queryset.py: readers of _fields_ordered.                    *)
(***************************************************************************)
\* Model.field_name: cls._fields_ordered[field_no-1], with Python indexing
field_name(cls, field_no) ==
    LET n == Len(cls.fields_ordered)
        i == field_no - 1
    IN  IF ~cls.has_fields_ordered THEN "<AttributeError>"
        ELSE IF i >= 0 /\ i < n THEN cls.fields_ordered[i + 1]
        ELSE IF i < 0 /\ i >= -n THEN cls.fields_ordered[n + i + 1]
        ELSE "<IndexError>"

\* the parts list Model.create_index builds (lines 100-103); a name that is
\* not a field makes cls._fields.get() return None
IndexParts(cls, fields) ==
    [i \in DOMAIN fields |->
        [fieldno |-> cls.fields[fields[i]].creation_counter,
         type |-> tarantool_index_type(cls.fields[fields[i]].kind)]]

(***************************************************************************)
(* exceptions.py / core.py: error translation.                             *)
(***************************************************************************)
\* parse_tarantool_exception: the class of the returned error object
parse_tarantool_exception(code) ==
    IF code = ER_INDEX_EXISTS THEN "IndexExists"
    ELSE IF code = ER_SPACE_EXISTS THEN "SpaceExists"
    ELSE IF code = ER_IGNORABLE THEN "IgnorableError"
    ELSE "DatabaseError"

IsIgnorableError(exc) == exc \in {"IndexExists", "SpaceExists", "IgnorableError"}

\* Connection.call: what the call raises ("ok": it returns) on a Store answer
\* (answer 0: the Store executed the call)
Connection_call(answer) ==
    IF answer = 0 THEN "ok" ELSE parse_tarantool_exception(answer)

\* Model.create_space: try/except IgnorableError around the call
create_space_outcome(answer) ==
    LET exc == Connection_call(answer)
    IN  IF IsIgnorableError(exc) THEN "ok" ELSE exc

\* Model.create_index: s.create_index(...) goes through Space.__getattr__,
\* Call.__call__ and Connection.call; nothing catches what that raises
create_index_outcome(cls, fields, answer) ==
    IF \E i \in DOMAIN fields : fields[i] \notin DOMAIN cls.fields
    THEN "AttributeError"
    ELSE Connection_call(answer)

(***************************************************************************)
(* The Store's side of provisioning.                                       *)
(***************************************************************************)
\* answers the Store may give to box.schema.space.create
StoreSpaceAnswers(spaces, name) ==
    IF name \in spaces THEN {ER_SPACE_EXISTS} ELSE {0, ER_IGNORABLE, ER_OTHER}

\* answers the Store may give to box.space.<name>:create_index
StoreIndexAnswers(indexes, key) ==
    IF key \in indexes THEN {ER_INDEX_EXISTS}
    ELSE IF Cardinality(indexes) < MaxIndexes THEN {0, ER_OTHER}
    ELSE {ER_OTHER}

(***************************************************************************)
(* fields.py: the descriptor, validation and conversion of one field.      *)
(***************************************************************************)
\* int(value) succeeds for numbers and numeral strings; for another string it
\* raises ValueError, for None, a list, a dict or a datetime TypeError
CanInt(v) == v[1] \in {"int", "bool", "numstr", "big"}
IntOf(v) == IF v[1] = "big" THEN v ELSE PyInt(v[2])
IsString(v) == v[1] \in {"str", "numstr", "datestr"}

\* what a callable default returns (`lambda: []`)
Produce(default) == PyList(<<>>)

\* BaseField.__set__: the value stored in _data[name]
BaseField_set(field, value) ==
    IF value = None /\ field.default # None
    THEN (IF field.default = Producer THEN Produce(field.default)
          ELSE field.default)
    ELSE value

\* BaseField.__set__ (lines 64-65): the number of times it calls the default
set_invocations(field, value) ==
    IF value = None /\ field.default = Producer THEN 1 ELSE 0

\* BaseField.validate (lines 75-82): `if self.required and not value`
BaseField_validate(field, value) ==
    IF field.required /\ ~Truthy(value) THEN "ValidationError" ELSE "ok"

\* Num32Field.validate: the base check, int(), then the two bounds
Num32Field_validate(field, value) ==
    IF BaseField_validate(field, value) # "ok" THEN "ValidationError"
    ELSE IF ~CanInt(value) /\ ~IsString(value) THEN "TypeError"
    ELSE IF ~CanInt(value) THEN "ValidationError"
    ELSE IF field.min_value # None /\ Below(IntOf(value), field.min_value)
    THEN "ValidationError"
    ELSE IF field.max_value # None /\ Below(field.max_value, IntOf(value))
    THEN "ValidationError"
    ELSE "ok"

\* ListField.validate: the base check, then the value must be a list; the
\* element field of the modelled lists accepts every element
ListField_validate(field, value) ==
    IF BaseField_validate(field, value) # "ok" THEN "ValidationError"
    ELSE IF value[1] # "list" THEN "ValidationError"
    ELSE "ok"

\* DateTimeField.validate: the base check, then isinstance(value, datetime)
DateTimeField_validate(field, value) ==
    IF BaseField_validate(field, value) # "ok" THEN "ValidationError"
    ELSE IF value[1] # "datetime" THEN "ValidationError"
    ELSE "ok"

\* field.validate(value), by field class (BooleanField inherits the base's)
Field_validate(field, value) ==
    IF field.kind = "Num32Field" THEN Num32Field_validate(field, value)
    ELSE IF field.kind \in {"ListField", "ListAsDictField"}
    THEN ListField_validate(field, value)
    ELSE IF field.kind = "DateTimeField"
    THEN DateTimeField_validate(field, value)
    ELSE BaseField_validate(field, value)

\* what field.to_python(value) raises, "" when it returns: int() of a truthy
\* value for Num32Field, strptime of a truthy value for DateTimeField,
\* value.keys() for ListAsDictField
Field_to_python_error(field, value) ==
    IF field.kind = "Num32Field" /\ Truthy(value) /\ ~CanInt(value)
    THEN (IF IsString(value) THEN "ValueError" ELSE "TypeError")
    ELSE IF field.kind = "DateTimeField" /\ Truthy(value)
                /\ value[1] # "datestr"
    THEN (IF IsString(value) THEN "ValueError" ELSE "TypeError")
    ELSE IF field.kind = "ListAsDictField" /\ value[1] # "dict"
    THEN "AttributeError"
    ELSE ""

Field_to_python_raises(field, value) == Field_to_python_error(field, value) # ""

\* field.to_python(value), for the classes whose to_python is a function of
\* the value
Field_to_python(field, value) ==
    IF field.kind = "Num32Field"
    THEN (IF Truthy(value) THEN IntOf(value) ELSE value)
    ELSE IF field.kind = "BooleanField" THEN PyBool(Truthy(value))
    ELSE IF field.kind = "DateTimeField"
    THEN (IF Truthy(value) THEN PyDateTime(value[2]) ELSE None)
    ELSE value

\* the values field.to_python(value) may return: ListAsDictField returns
\* value.keys(), the keys in the order the dict happens to iterate
Field_to_python_choices(field, value) ==
    IF field.kind = "ListAsDictField"
    THEN {PyList(order) : order \in Perms(value[2])}
    ELSE {Field_to_python(field, value)}

\* what field.to_db(value) raises, "" when it returns: BaseField.to_db is
\* to_python, DateTimeField.to_db calls value.strftime, ListAsDictField.to_db
\* iterates the value
Field_to_db_error(field, value) ==
    IF field.kind = "BooleanField" THEN ""
    ELSE IF field.kind = "DateTimeField"
    THEN (IF Truthy(value) /\ value[1] # "datetime" THEN "AttributeError"
          ELSE "")
    ELSE IF field.kind = "ListAsDictField"
    THEN (IF value[1] \notin {"list", "dict"} THEN "TypeError" ELSE "")
    ELSE Field_to_python_error(field, value)

\* field.to_db(value): BaseField.to_db is to_python, BooleanField.to_db the
\* identity, DateTimeField.to_db the formatted string ('' for no value),
\* ListAsDictField.to_db the dict {i: True for i in value}
Field_to_db(field, value) ==
    IF field.kind = "BooleanField" THEN value
    ELSE IF field.kind = "DateTimeField"
    THEN (IF Truthy(value) THEN PyDateStr(value[2]) ELSE PyStr(0))
    ELSE IF field.kind = "ListAsDictField"
    THEN PyDict(IF value[1] = "list" THEN Range(value[2]) ELSE value[2])
    ELSE Field_to_python(field, value)

(***************************************************************************)
(* models.py: the instance.                                                *)
(***************************************************************************)
OPERATIONS_MAP ==
    [add |-> "+", assign |-> "=", and |-> "&", xor |-> "^", or |-> "|"]

\* a reset that skips the fields without a default
Model_reset_defaults(cls) ==
    [n \in {m \in DOMAIN cls.fields : cls.fields[m].default # None} |->
        BaseField_set(cls.fields[n], None)]

\* Model.reset: every field set from None, so defaults apply
Model_reset(cls) ==
    [n \in DOMAIN cls.fields |-> BaseField_set(cls.fields[n], None)]

\* Model.__init__(**kwargs): reset, then setattr for the keywords that name
\* fields
Model_init(cls, kwargs) ==
    [n \in DOMAIN cls.fields \cap DOMAIN kwargs |->
        BaseField_set(cls.fields[n], kwargs[n])] @@ Model_reset(cls)

\* the number of calls of each field's default producer during
\* Model.__init__(**kwargs): one __set__ in reset, one for a keyword
Model_init_invocations(cls, kwargs) ==
    [n \in DOMAIN cls.fields |->
        set_invocations(cls.fields[n], None)
          + (IF n \in DOMAIN kwargs
             THEN set_invocations(cls.fields[n], kwargs[n]) ELSE 0)]

\* Model.__setitem__(name, value): KeyError for a name that is no field
Model_setitem(cls, d, name, value) ==
    IF name \notin DOMAIN cls.fields
    THEN [outcome |-> "KeyError", data |-> d]
    ELSE [outcome |-> "ok",
          data |-> [d EXCEPT ![name] = BaseField_set(cls.fields[name], value)]]

\* Model.validate (lines 144-153): "ok" or the exception raised
Model_validate(cls, d) ==
    IF \E n \in DOMAIN cls.fields :
          \/ d[n] # None /\ Field_validate(cls.fields[n], d[n]) # "ok"
          \/ d[n] = None /\ cls.fields[n].required
    THEN "ValidationError" ELSE "ok"

\* Model.to_db: field name -> storage value
Model_to_db(cls, d) ==
    [n \in DOMAIN cls.fields |-> Field_to_db(cls.fields[n], d[n])]

Model_to_db_raises(cls, d) ==
    \E n \in DOMAIN cls.fields : Field_to_db_error(cls.fields[n], d[n]) # ""

\* what Model.to_db may raise: the exception of the first field, in the
\* iteration order of _fields, whose to_db raises; {""} when none does
Model_to_db_errors(cls, d) ==
    IF Model_to_db_raises(cls, d)
    THEN {Field_to_db_error(cls.fields[n], d[n]) : n \in DOMAIN cls.fields}
            \ {""}
    ELSE {""}

\* the subsequence of s whose elements satisfy Keep
RECURSIVE SelectNames(_, _)
SelectNames(s, keep) ==
    IF s = <<>> THEN <<>>
    ELSE IF Head(s) \in keep THEN <<Head(s)>> \o SelectNames(Tail(s), keep)
    ELSE SelectNames(Tail(s), keep)

\* Model._dict_to_values: the positional tuple, in _fields_ordered order
dict_to_values(cls, d) ==
    LET names == SelectNames(cls.fields_ordered, DOMAIN d)
    IN  [i \in DOMAIN names |-> d[names[i]]]

\* Model._values_to_dict: dict(zip(_fields_ordered, values))
values_to_dict(cls, values) ==
    LET n == IF Len(values) < Len(cls.fields_ordered) THEN Len(values)
             ELSE Len(cls.fields_ordered)
    IN  [nm \in {cls.fields_ordered[i] : i \in 1..n} |->
            values[CHOOSE i \in 1..n : cls.fields_ordered[i] = nm]]

\* Model._get_primary_key_value: the values it may return (the first
\* primary_key field in dictionary order); none when it raises ValueError
primary_key_values(cls, d, pk) ==
    IF Truthy(pk) THEN {pk}
    ELSE {d[n] : n \in {m \in DOMAIN cls.fields : cls.fields[m].primary_key}}

\* _parse_fields that maps every known modifier to the assignment symbol
parse_modificator_assign(key) ==
    LET modificator == IF key[2] = "" THEN "assign" ELSE key[2]
    IN  IF modificator \in DOMAIN OPERATIONS_MAP THEN "=" ELSE ""

\* Model._parse_fields on a single keyword: key is <<field name, modifier>>,
\* the two chunks of key.split('__', 1), with modifier "" when there is no
\* '__'; the result is the operation symbol, "" when the lookup raises
parse_modificator(key) ==
    LET modificator == IF key[2] = "" THEN "assign" ELSE key[2]
    IN  IF modificator \in DOMAIN OPERATIONS_MAP
        THEN OPERATIONS_MAP[modificator] ELSE ""

\* Model._make_changes_struct: one (operation, field_number, value) for each
\* name of _fields_ordered that has an operation; field_number is the
\* enumerate() index
make_changes_struct(cls, ops) ==
    LET names == SelectNames(cls.fields_ordered, DOMAIN ops)
        numberOf(nm) == (CHOOSE i \in DOMAIN cls.fields_ordered :
                            cls.fields_ordered[i] = nm) - 1
    IN  [i \in DOMAIN names |->
            [sym |-> ops[names[i]].sym, field_number |-> numberOf(names[i]),
             value |-> ops[names[i]].value]]

\* the loop after the Store call in Model.update: setattr(self, key, value)
\* for every keyword; only a keyword that is exactly a field's name reaches
\* the field's descriptor
update_setattr(cls, d, kwargs) ==
    [n \in DOMAIN d |->
        IF <<n, "">> \in DOMAIN kwargs
        THEN BaseField_set(cls.fields[n], kwargs[<<n, "">>]) ELSE d[n]]

(***************************************************************************)
(* Requests to the Store.                                                  *)
(***************************************************************************)
Request(op, key, index, values, changes) ==
    [op |-> op, key |-> key, index |-> index, values |-> values,
     changes |-> changes]

VARIABLES
    creation_counter,   \* BaseField.creation_counter
    attrs,              \* namespace of the class body being executed
    classes,            \* the model classes declared so far
    store_spaces,       \* spaces the Store holds
    store_indexes,      \* indexes the Store holds: <<space, index name>>
    prov,               \* the last provisioning call and its outcome
    data,               \* the instance's _data
    exists_in_db,       \* the instance's _exists_in_db
    pk_attr,            \* the instance's plain attribute pk (None: not set)
    last,               \* the last call on the instance or the QuerySet
    connection_settings,    \* connection._connection_settings
    connections,        \* connection._connections: alias -> Connection
    spaces,             \* connection._spaces: key -> Space
    opened,             \* the number of Connection objects created so far
    closed,             \* the Connection objects close() was called on
    returned            \* the last call of the connection module

declVars == <<creation_counter, attrs, classes, store_spaces, store_indexes,
              prov>>
instVars == <<data, exists_in_db, pk_attr, last>>
connVars == <<connection_settings, connections, spaces, opened, closed,
              returned>>
vars == <<declVars, instVars, connVars>>

\* the module-level dictionaries of connection.py when it was imported; a
\* Connection object is known by the order of its creation, 0 is no object
InitRegistry ==
    /\ connection_settings = <<>>
    /\ connections = <<>>
    /\ spaces = <<>>
    /\ opened = 0
    /\ closed = {}
    /\ returned = [op |-> "none", alias |-> "", space |-> "", outcome |-> "ok",
                   value |-> [connection |-> 0, name |-> ""]]

NoLast ==
    [op |-> "none", outcome |-> "ok", why |-> "", reqs |-> <<>>,
     ret |-> FALSE, result |-> <<>>, key |-> <<"", "">>, val |-> None,
     pre_exists |-> FALSE, pre_val |-> None, response |-> <<>>,
     validate |-> FALSE, kwargs |-> <<>>, invoked |-> <<>>]

\* the class Model itself: the metaclass collects no field for it
ModelClass == ModelMetaclass_new(NoFields, DefaultMeta, FALSE, <<>>)

NoProv ==
    [op |-> "none", cls |-> 0, fields |-> <<>>, parts |-> <<>>,
     answer |-> 0, outcome |-> "ok"]

InitDecl ==
    /\ creation_counter = 1
    /\ attrs = NoFields
    /\ classes = <<>>
    /\ store_spaces = {}
    /\ store_indexes = {}
    /\ prov = NoProv
    /\ InitRegistry
    /\ data = Model_reset(ModelClass)
    /\ exists_in_db = FALSE
    /\ pk_attr = None
    /\ last = NoLast

\* a class body statement `name = Kind(...)`; a ListField is given either an
\* element field constructed in the same statement (fresh) or one that exists
BodyField ==
    /\ creation_counter <= MaxCreated
    /\ Len(classes) < MaxModels
    /\ \E name \in Names \ DOMAIN attrs, kind \in DeclKinds, fresh \in BOOLEAN :
          LET counter == IF kind = "ListField" /\ fresh
                         THEN CounterAfter("Num32Field", creation_counter)
                         ELSE creation_counter
          IN  /\ attrs' = (name :> NewField(kind, FALSE, FALSE, None, None,
                                            counter)) @@ attrs
              /\ creation_counter' = CounterAfter(kind, counter)
    /\ UNCHANGED <<classes, store_spaces, store_indexes, prov, instVars, connVars>>

\* a field instance created outside the class body being collected (an
\* element field, a field of a module that declares no model)
StrayField ==
    /\ creation_counter <= MaxCreated
    /\ creation_counter' = CounterAfter("Num32Field", creation_counter)
    /\ UNCHANGED <<attrs, classes, store_spaces, store_indexes, prov, instVars, connVars>>

\* the end of a class body: ModelMetaclass.__new__
ModelNew ==
    /\ Len(classes) < MaxModels
    /\ \E ch \in FieldsOrderedChoices(attrs) :
          classes' = Append(classes,
              ModelMetaclass_new(attrs,
                  [DefaultMeta EXCEPT !.space = IF Len(classes) = 0
                                               THEN "card" ELSE "card_data"],
                  ch.has, ch.fo))
    /\ attrs' = NoFields
    /\ UNCHANGED <<creation_counter, store_spaces, store_indexes, prov, instVars, connVars>>

\* Model.create_space(), called between class bodies
CreateSpace ==
    /\ attrs = NoFields
    /\ \E c \in DOMAIN classes :
      \E answer \in StoreSpaceAnswers(store_spaces, classes[c].meta.space) :
        /\ prov' = [op |-> "create_space", cls |-> c, fields |-> <<>>,
                    parts |-> <<>>, answer |-> answer,
                    outcome |-> create_space_outcome(answer)]
        /\ store_spaces' = IF answer = 0
                           THEN store_spaces \cup {classes[c].meta.space}
                           ELSE store_spaces
        /\ UNCHANGED <<creation_counter, attrs, classes, store_indexes, instVars, connVars>>

\* Model.create_index(fields=fields), called between class bodies; the index
\* name defaults to the joined field names
CreateIndex ==
    /\ attrs = NoFields
    /\ \E c \in DOMAIN classes :
      \E fields \in DistinctSeqs(Names, MaxParts) :
        LET cls == classes[c]
            key == <<cls.meta.space, fields>>
            known == \A i \in DOMAIN fields : fields[i] \in DOMAIN cls.fields
        IN  \E answer \in IF known THEN StoreIndexAnswers(store_indexes, key)
                          ELSE {0} :
              /\ prov' = [op |-> "create_index", cls |-> c, fields |-> fields,
                          parts |-> IF known THEN IndexParts(cls, fields)
                                    ELSE <<>>,
                          answer |-> answer,
                          outcome |-> create_index_outcome(cls, fields, answer)]
              /\ store_indexes' = IF known /\ answer = 0
                                  THEN store_indexes \cup {key}
                                  ELSE store_indexes
              /\ UNCHANGED <<creation_counter, attrs, classes, store_spaces, instVars, connVars>>

NextDecl ==
    \/ BodyField
    \/ StrayField
    \/ ModelNew
    \/ CreateSpace
    \/ CreateIndex

SpecDecl == InitDecl /\ [][NextDecl]_vars

(***************************************************************************)
(* The life of one instance of the model class classes[1].                 *)
(***************************************************************************)
\* the largest value the model's numeric field accepts (its max_value)
MaxValue == 1

\* class bodies `a = Num32Field(...); b = BooleanField(...)`
InstBody(pk, ra, rb, ix) ==
    ("a" :> NewField("Num32Field", ra, pk, None, PyInt(MaxValue), 1))
        @@ ("b" :> NewField("BooleanField", rb, FALSE, ix, None, 2))

InstClasses ==
    {ModelMetaclass_new(InstBody(pk, ra, rb, None), DefaultMeta, ch.has, ch.fo) :
        pk \in BOOLEAN, ra \in BOOLEAN, rb \in BOOLEAN,
        ch \in FieldsOrderedChoices(InstBody(FALSE, FALSE, FALSE, None))}

\* values a caller assigns to the fields
AValues == {None} \cup {PyInt(i) : i \in 0..(MaxValue + 1)}
BValues == {None, PyBool(FALSE), PyBool(TRUE)}
FieldValues(n) == IF n = "a" THEN AValues ELSE BValues

\* answers of the Store to insert, update and delete
StoreAnswers == {0, ER_OTHER}

InitInst ==
    /\ creation_counter = 3
    /\ attrs = NoFields
    /\ classes \in {<<c>> : c \in InstClasses}
    /\ store_spaces = {}
    /\ store_indexes = {}
    /\ prov = NoProv
    /\ InitRegistry
    /\ data = Model_init(classes[1], NoFields)
    /\ exists_in_db = FALSE
    /\ pk_attr = None
    /\ last = [NoLast EXCEPT !.op = "new"]

Outcome(outcome, reqs, d, ex, pk) ==
    [outcome |-> outcome, reqs |-> reqs, data |-> d, exists |-> ex, pk |-> pk]

\* Model.insert that forgets `self._exists_in_db = True`
Model_insert_unmarked(cls, d, ex, pk, dbdata, answer) ==
    LET req == Request("insert", None, None, dict_to_values(cls, dbdata), <<>>)
    IN  IF ~cls.has_fields_ordered
        THEN Outcome("AttributeError", <<>>, d, ex, pk)
        ELSE IF answer # 0
        THEN Outcome("DatabaseError", <<req>>, d, ex, pk)
        ELSE Outcome("ok", <<req>>, d, ex, pk)

\* Model.insert(**data): dbdata is the keyword dictionary
Model_insert(cls, d, ex, pk, dbdata, answer) ==
    LET req == Request("insert", None, None, dict_to_values(cls, dbdata), <<>>)
    IN  IF ~cls.has_fields_ordered
        THEN Outcome("AttributeError", <<>>, d, ex, pk)
        ELSE IF answer # 0
        THEN Outcome("DatabaseError", <<req>>, d, ex, pk)
        ELSE Outcome("ok", <<req>>, d, TRUE, pk)

\* Model.update(**kwargs): kwargs maps <<field name, modifier>> to a value,
\* pkv is the value _get_primary_key_value returns
Model_update(cls, d, ex, pk, kwargs, pkv, answer) ==
    LET ops == [n \in {k[1] : k \in DOMAIN kwargs} |->
                   LET k == CHOOSE k \in DOMAIN kwargs : k[1] = n
                   IN  [sym |-> parse_modificator(k), value |-> kwargs[k]]]
        req == Request("update", pkv, None, <<>>,
                       make_changes_struct(cls, ops))
    IN  IF primary_key_values(cls, d, pk) = {}
        THEN Outcome("ValueError", <<>>, d, ex, pk)
        ELSE IF \E k \in DOMAIN kwargs : parse_modificator(k) = ""
        THEN Outcome("ValueError", <<>>, d, ex, pk)
        ELSE IF ~cls.has_fields_ordered
        THEN Outcome("AttributeError", <<>>, d, ex, pk)
        ELSE IF answer # 0
        THEN Outcome("DatabaseError", <<req>>, d, ex, pk)
        ELSE Outcome("ok", <<req>>, update_setattr(cls, d, kwargs), TRUE,
                     IF <<"pk", "">> \in DOMAIN kwargs
                     THEN kwargs[<<"pk", "">>] ELSE pk)

\* Model.save that sets _exists_in_db before it validates
Model_save_marked_first(cls, d, ex, pk, validate, dberr, pkv, answer) ==
    LET dbdata == Model_to_db(cls, d)
        kwargs == [k \in {<<n, "">> : n \in DOMAIN dbdata} |-> dbdata[k[1]]]
    IN  IF validate /\ Model_validate(cls, d) # "ok"
        THEN Outcome("ValidationError", <<>>, d, TRUE, pk)
        ELSE IF dberr # ""
        THEN Outcome(dberr, <<>>, d, TRUE, pk)
        ELSE IF ex THEN Model_update(cls, d, ex, pk, kwargs, pkv, answer)
        ELSE Model_insert(cls, d, ex, pk, dbdata, answer)

\* Model.save(validate): validate, to_db, then update or insert; dberr is
\* what to_db raises ("": it returns)
Model_save(cls, d, ex, pk, validate, dberr, pkv, answer) ==
    LET dbdata == Model_to_db(cls, d)
        kwargs == [k \in {<<n, "">> : n \in DOMAIN dbdata} |-> dbdata[k[1]]]
    IN  IF validate /\ Model_validate(cls, d) # "ok"
        THEN Outcome("ValidationError", <<>>, d, ex, pk)
        ELSE IF dberr # ""
        THEN Outcome(dberr, <<>>, d, ex, pk)
        ELSE IF ex THEN Model_update(cls, d, ex, pk, kwargs, pkv, answer)
        ELSE Model_insert(cls, d, ex, pk, dbdata, answer)

\* Model.delete that leaves _exists_in_db as it was
Model_delete_marked(cls, d, ex, pk, pkv, answer) ==
    LET req == Request("delete", pkv, None, <<>>, <<>>)
    IN  IF primary_key_values(cls, d, pk) = {}
        THEN Outcome("ValueError", <<>>, d, ex, pk)
        ELSE IF answer # 0
        THEN Outcome("DatabaseError", <<req>>, d, ex, pk)
        ELSE Outcome("ok", <<req>>, d, ex, pk)

\* Model.delete(): the Store answers the delete request with answer
Model_delete(cls, d, ex, pk, pkv, answer) ==
    LET req == Request("delete", pkv, None, <<>>, <<>>)
    IN  IF primary_key_values(cls, d, pk) = {}
        THEN Outcome("ValueError", <<>>, d, ex, pk)
        ELSE IF answer # 0
        THEN Outcome("DatabaseError", <<req>>, d, ex, pk)
        ELSE Outcome("ok", <<req>>, d, FALSE, pk)

\* what Model.delete returns: response.rowcount > 0
Model_delete_returns(rowcount) == rowcount > 0

\* the values _get_primary_key_value may return, None standing in when it
\* raises
PkChoices(cls, d, pk) ==
    IF primary_key_values(cls, d, pk) = {} THEN {None}
    ELSE primary_key_values(cls, d, pk)

Apply(r, l) ==
    /\ data' = r.data
    /\ exists_in_db' = r.exists
    /\ pk_attr' = r.pk
    /\ last' = [l EXCEPT !.outcome = r.outcome, !.reqs = r.reqs,
                         !.pre_exists = exists_in_db]
    /\ UNCHANGED <<declVars, connVars>>

\* cls(**kwargs), with or without exists_in_db=True
New ==
    \E kwargs \in [{"a", "b"} -> AValues \cup BValues], ex \in BOOLEAN :
        /\ kwargs["a"] \in AValues
        /\ kwargs["b"] \in BValues
        /\ Apply(Outcome("ok", <<>>, Model_init(classes[1], kwargs), ex, None),
                 [NoLast EXCEPT !.op = "new"])

\* instance.name = value, for a field name
SetAttr ==
    \E n \in DOMAIN classes[1].fields :
      \E v \in FieldValues(n) :
        Apply(Outcome("ok", <<>>,
                      [data EXCEPT ![n] = BaseField_set(classes[1].fields[n], v)],
                      exists_in_db, pk_attr),
              [NoLast EXCEPT !.op = "setattr", !.key = <<n, "">>, !.val = v])

\* instance.pk = value: the primary-key override _get_primary_key_value reads
SetPk ==
    \E v \in {None, PyInt(MaxValue)} :
        Apply(Outcome("ok", <<>>, data, exists_in_db, v),
              [NoLast EXCEPT !.op = "setpk", !.val = v])

\* instance.validate()
Validate ==
    Apply(Outcome(Model_validate(classes[1], data), <<>>, data, exists_in_db,
                  pk_attr),
          [NoLast EXCEPT !.op = "validate"])

\* instance.save(validate=validate)
Save ==
    \E validate \in BOOLEAN, answer \in StoreAnswers,
       dberr \in Model_to_db_errors(classes[1], data),
       pkv \in PkChoices(classes[1], data, pk_attr) :
        Apply(Model_save(classes[1], data, exists_in_db, pk_attr, validate,
                         dberr, pkv, answer),
              [NoLast EXCEPT !.op = "save", !.validate = validate])

\* the keywords of a direct update() call
UpdateFields == {"a", "b"}
UpdateMods == {"", "assign", "add", "or", "incr"}
UpdateValue(n) == IF n = "a" THEN PyInt(1) ELSE PyBool(TRUE)

\* instance.update(**{key: value})
Update ==
    \E n \in UpdateFields, m \in UpdateMods, answer \in StoreAnswers,
       pkv \in PkChoices(classes[1], data, pk_attr) :
        Apply(Model_update(classes[1], data, exists_in_db, pk_attr,
                           (<<n, m>> :> UpdateValue(n)), pkv, answer),
              [NoLast EXCEPT !.op = "update", !.key = <<n, m>>,
                             !.val = UpdateValue(n), !.pre_val = data[n]])

\* instance.delete()
Delete ==
    \E answer \in StoreAnswers, rowcount \in {0, 1},
       pkv \in PkChoices(classes[1], data, pk_attr) :
        LET r == Model_delete(classes[1], data, exists_in_db, pk_attr, pkv,
                              answer)
        IN  Apply(r, [NoLast EXCEPT !.op = "delete",
                          !.ret = (r.outcome = "ok"
                                    /\ Model_delete_returns(rowcount)),
                          !.val = PyInt(IF r.outcome = "ok" THEN rowcount
                                        ELSE 0)])

Next ==
    \/ New
    \/ SetAttr
    \/ SetPk
    \/ Validate
    \/ Save
    \/ Update
    \/ Delete

Spec == InitInst /\ [][Next]_vars

(***************************************************************************)
(* update() with several keywords.                                         *)
(***************************************************************************)
\* the largest number of keywords of one update() call
MaxKeys == 2

\* class bodies of the updated model
UpdateClasses ==
    {ModelMetaclass_new(InstBody(pk, FALSE, FALSE, None), DefaultMeta,
                        ch.has, ch.fo) :
        pk \in BOOLEAN,
        ch \in FieldsOrderedChoices(InstBody(FALSE, FALSE, FALSE, None))}

\* keyword names: a field or a name that is no field, with a modifier
UpdateKeys == {<<n, m>> : n \in {"a", "b", "z"}, m \in {"", "add", "incr"}}

\* the value passed with a keyword
KeyValue(k) == IF k[2] = "" THEN PyInt(1) ELSE PyInt(0)

\* the keyword dictionaries of update(): MaxKeys keywords at most
UpdateKwargs ==
    {[k \in K |-> KeyValue(k)] :
        K \in {K \in SUBSET UpdateKeys : Cardinality(K) \in 1..MaxKeys}}

InitUpdate ==
    /\ creation_counter = 3
    /\ attrs = NoFields
    /\ classes \in {<<c>> : c \in UpdateClasses}
    /\ store_spaces = {}
    /\ store_indexes = {}
    /\ prov = NoProv
    /\ InitRegistry
    /\ data = Model_init(classes[1], NoFields)
    /\ exists_in_db = FALSE
    /\ pk_attr = None
    /\ last = [NoLast EXCEPT !.op = "new"]

\* instance.update(**kwargs)
UpdateMany ==
    \E kwargs \in UpdateKwargs, answer \in StoreAnswers,
       pkv \in PkChoices(classes[1], data, pk_attr) :
        Apply(Model_update(classes[1], data, exists_in_db, pk_attr, kwargs,
                           pkv, answer),
              [NoLast EXCEPT !.op = "update", !.kwargs = kwargs])

NextUpdate ==
    \/ SetPk
    \/ UpdateMany

SpecUpdate == InitUpdate /\ [][NextUpdate]_vars

(***************************************************************************)
(* queryset.py: the QuerySet of the model class classes[1].                *)
(***************************************************************************)
\* raw tuples a select returns
MaxTuples == 2
\* values a raw tuple holds beyond the declared fields
MaxExtra == 1

\* Model.from_dict(raw_data) raises: some field.to_python does
from_dict_raises(cls, raw_data) ==
    \E n \in DOMAIN cls.fields \cap DOMAIN raw_data :
        Field_to_python_raises(cls.fields[n], raw_data[n])

\* Model.from_dict(raw_data): the _data of the instance built
from_dict(cls, raw_data) ==
    Model_init(cls, [n \in DOMAIN cls.fields \cap DOMAIN raw_data |->
                        Field_to_python(cls.fields[n], raw_data[n])])

\* the shape check of QuerySet.to_python on one raw tuple (lines 39-46):
\* "ok", or what the raise statement raises; ','.join(extra_fields) raises
\* TypeError when an extra value is no string
check_tuple(cls, values) ==
    LET count == Len(cls.fields_ordered)
    IN  IF cls.meta.check_tuple_length /\ Len(values) # count
        THEN (IF \E i \in DOMAIN values : i > count /\ values[i][1] # "str"
              THEN "TypeError" ELSE "FieldError")
        ELSE "ok"

\* what converting one raw tuple raises, "ok" when it is converted
convert_outcome(cls, values) ==
    IF check_tuple(cls, values) # "ok" THEN check_tuple(cls, values)
    ELSE IF from_dict_raises(cls, values_to_dict(cls, values)) THEN "ValueError"
    ELSE "ok"

\* QuerySet.to_python(response): the list of instances, or the exception of
\* the first raw tuple that cannot be converted
to_python(cls, response) ==
    LET bad == {i \in DOMAIN response : convert_outcome(cls, response[i]) # "ok"}
        first == CHOOSE i \in bad : \A j \in bad : i <= j
    IN  IF ~cls.has_fields_ordered
        THEN [outcome |-> "AttributeError", why |-> "", result |-> <<>>]
        ELSE IF bad # {}
        THEN [outcome |-> convert_outcome(cls, response[first]),
              why |-> IF convert_outcome(cls, response[first]) = "FieldError"
                      THEN "extra fields" ELSE "",
              result |-> <<>>]
        ELSE [outcome |-> "ok", why |-> "",
              result |-> [i \in DOMAIN response |->
                            [data |-> from_dict(cls, values_to_dict(cls, response[i])),
                             exists_in_db |-> TRUE]]]

\* an index test written `if not field.db_index`
is_indexed_truthy(field) == Truthy(field.db_index)

\* the index test of QuerySet.filter: `field.db_index is None` raises
is_indexed(field) == field.db_index # None

\* a cardinality test written `len(model_list) > 2`
get_cardinality_late(n) ==
    IF n = 0 THEN "DoesNotExist"
    ELSE IF n > 2 THEN "MultipleObjectsReturned"
    ELSE "ok"

\* the cardinality test of QuerySet.get on the list filter returned
get_cardinality(n) ==
    IF n = 0 THEN "DoesNotExist"
    ELSE IF n > 1 THEN "MultipleObjectsReturned"
    ELSE "ok"

QueryResult(outcome, why, reqs, result) ==
    [outcome |-> outcome, why |-> why, reqs |-> reqs, result |-> result]

\* QuerySet.filter(**{name: value}); answer and response are the Store's
\* reply to the select
filter(cls, name, value, answer, response) ==
    LET field == cls.fields[name]
        req == Request("select", value, field.db_index, <<>>, <<>>)
        conv == to_python(cls, response)
    IN  IF name \notin DOMAIN cls.fields
        THEN QueryResult("FieldError", "no field", <<>>, <<>>)
        ELSE IF ~is_indexed(field)
        THEN QueryResult("FieldError", "not indexed", <<>>, <<>>)
        ELSE IF Field_validate(field, value) # "ok"
        THEN QueryResult(Field_validate(field, value), "", <<>>, <<>>)
        ELSE IF ~cls.has_fields_ordered
        THEN QueryResult("AttributeError", "", <<>>, <<>>)
        ELSE IF answer # 0
        THEN QueryResult("DatabaseError", "", <<req>>, <<>>)
        ELSE QueryResult(conv.outcome, conv.why, <<req>>, conv.result)

\* QuerySet.get(**{name: value})
get(cls, name, value, answer, response) ==
    LET f == filter(cls, name, value, answer, response)
    IN  IF f.outcome # "ok" THEN f
        ELSE IF get_cardinality(Len(f.result)) # "ok"
        THEN QueryResult(get_cardinality(Len(f.result)), "", f.reqs, <<>>)
        ELSE QueryResult("ok", "", f.reqs, <<f.result[1]>>)

\* class bodies of the queried model
QueryClasses ==
    {ModelMetaclass_new(InstBody(pk, FALSE, FALSE, ix),
                        [DefaultMeta EXCEPT !.check_tuple_length = ck],
                        ch.has, ch.fo) :
        pk \in BOOLEAN, ix \in {None, PyInt(1)}, ck \in BOOLEAN,
        ch \in FieldsOrderedChoices(InstBody(FALSE, FALSE, FALSE, None))}

\* the raw tuples the Store returns: a prefix of a full row, or a full row
\* followed by extra values (strings or integers)
FullRow == <<PyInt(1), PyInt(1)>>
RawTuples ==
    {SubSeq(FullRow, 1, k) : k \in 1..Len(FullRow)}
        \cup UNION {{FullRow \o e : e \in [1..k -> {PyStr(1), PyInt(1)}]} :
                        k \in 1..MaxExtra}
Responses == UNION {[1..k -> RawTuples] : k \in 0..MaxTuples}

FilterNames == {"a", "b", "z"}
FilterValues == {PyInt(MaxValue), PyInt(MaxValue + 1)}

InitQuery ==
    /\ creation_counter = 3
    /\ attrs = NoFields
    /\ classes \in {<<c>> : c \in QueryClasses}
    /\ store_spaces = {}
    /\ store_indexes = {}
    /\ prov = NoProv
    /\ InitRegistry
    /\ data = Model_init(classes[1], NoFields)
    /\ exists_in_db = FALSE
    /\ pk_attr = None
    /\ last = [NoLast EXCEPT !.op = "new"]

ApplyQuery(q, l) ==
    /\ last' = [l EXCEPT !.outcome = q.outcome, !.why = q.why,
                         !.reqs = q.reqs, !.result = q.result]
    /\ UNCHANGED <<declVars, data, exists_in_db, pk_attr, connVars>>

\* the caller is done with the result of the last query
Discard ==
    /\ last.op \in {"filter", "get"}
    /\ last' = [NoLast EXCEPT !.op = "new"]
    /\ UNCHANGED <<declVars, data, exists_in_db, pk_attr, connVars>>

\* QuerySet(cls, space).filter(**{name: value})
Filter ==
    /\ last.op = "new"
    /\ \E n \in FilterNames, v \in FilterValues, answer \in StoreAnswers,
       response \in Responses :
        ApplyQuery(filter(classes[1], n, v, answer, response),
                   [NoLast EXCEPT !.op = "filter", !.key = <<n, "">>,
                                  !.val = v, !.response = response])

\* QuerySet(cls, space).get(**{name: value})
Get ==
    /\ last.op = "new"
    /\ \E n \in FilterNames, v \in FilterValues, answer \in StoreAnswers,
       response \in Responses :
        ApplyQuery(get(classes[1], n, v, answer, response),
                   [NoLast EXCEPT !.op = "get", !.key = <<n, "">>,
                                  !.val = v, !.response = response])

NextQuery ==
    \/ Filter
    \/ Get
    \/ Discard

SpecQuery == InitQuery /\ [][NextQuery]_vars

(***************************************************************************)
(* The life of an instance of a model whose fields have defaults:          *)
(* a = Num32Field(primary_key=True, default=...), b = ListField(...).      *)
(***************************************************************************)
DataBody(default) ==
    ("a" :> Num32Field_init(None, PyInt(MaxValue),
                            [required |-> FALSE, default |-> default,
                             primary_key |-> TRUE, db_index |-> None], 1))
        @@ ("b" :> NewField("ListField", FALSE, FALSE, None, None, 3))

DataClasses ==
    {ModelMetaclass_new(DataBody(default), DefaultMeta, ch.has, ch.fo) :
        default \in {None, PyInt(1)},
        ch \in FieldsOrderedChoices(DataBody(None))}

\* values a caller passes for a field of the class
DataValues(n) ==
    IF n = "a" THEN {None, PyInt(0), PyInt(1)}
    ELSE {None, PyList(<<>>), PyList(<<1>>)}

\* keyword dictionaries: some of the names a, b, z with a value each
DataKwargs ==
    UNION {{kw \in [K -> {None, PyInt(0), PyInt(1), PyList(<<>>), PyList(<<1>>)}] :
               \A n \in K : kw[n] \in DataValues(n)} :
           K \in SUBSET {"a", "b", "z"}}

InitData ==
    /\ creation_counter = 3
    /\ attrs = NoFields
    /\ classes \in {<<c>> : c \in DataClasses}
    /\ store_spaces = {}
    /\ store_indexes = {}
    /\ prov = NoProv
    /\ InitRegistry
    /\ data = Model_init(classes[1], NoFields)
    /\ exists_in_db = FALSE
    /\ pk_attr = None
    /\ last = [NoLast EXCEPT !.op = "new", !.kwargs = NoFields,
                   !.invoked = Model_init_invocations(classes[1], NoFields)]

\* cls(**kwargs)
NewData ==
    \E kwargs \in DataKwargs :
        Apply(Outcome("ok", <<>>, Model_init(classes[1], kwargs), FALSE, None),
              [NoLast EXCEPT !.op = "new", !.kwargs = kwargs,
                   !.invoked = Model_init_invocations(classes[1], kwargs)])

\* instance.name = value, for a field name
Assign ==
    \E n \in DOMAIN classes[1].fields :
      \E v \in DataValues(n) :
        Apply(Outcome("ok", <<>>,
                      [data EXCEPT ![n] = BaseField_set(classes[1].fields[n], v)],
                      exists_in_db, pk_attr),
              [NoLast EXCEPT !.op = "setattr", !.key = <<n, "">>, !.val = v,
                   !.pre_val = data[n]])

\* instance[name] = value
SetItem ==
    \E n \in {"a", "b", "z"} :
      \E v \in DataValues(n) :
        LET r == Model_setitem(classes[1], data, n, v)
        IN  Apply(Outcome(r.outcome, <<>>, r.data, exists_in_db, pk_attr),
                  [NoLast EXCEPT !.op = "setitem", !.key = <<n, "">>,
                       !.val = v,
                       !.pre_val = IF n \in DOMAIN data THEN data[n] ELSE None])

\* instance.reset()
Reset ==
    Apply(Outcome("ok", <<>>, Model_reset(classes[1]), exists_in_db, pk_attr),
          [NoLast EXCEPT !.op = "reset",
               !.invoked = Model_init_invocations(classes[1], NoFields)])

\* the instance QuerySet.to_python builds for a raw dictionary:
\* cls.from_dict(raw_data), then _exists_in_db = True
FromDict ==
    \E raw_data \in DataKwargs :
        Apply(IF from_dict_raises(classes[1], raw_data)
              THEN Outcome("ValueError", <<>>, data, exists_in_db, pk_attr)
              ELSE Outcome("ok", <<>>, from_dict(classes[1], raw_data), TRUE,
                           None),
              [NoLast EXCEPT !.op = "from_dict", !.kwargs = raw_data])

NextData ==
    \/ NewData
    \/ Assign
    \/ SetItem
    \/ Reset
    \/ FromDict
    \/ Validate
    \/ Save
    \/ Update
    \/ Delete

SpecData == InitData /\ [][NextData]_vars

(***************************************************************************)
(* The life of an instance of a model with a DateTimeField:                *)
(* a = Num32Field(primary_key=True), b = DateTimeField(required=...).      *)
(***************************************************************************)
DateBody(required) ==
    ("a" :> NewField("Num32Field", FALSE, TRUE, None, None, 1))
        @@ ("b" :> NewField("DateTimeField", required, FALSE, None, None, 2))

DateClasses ==
    {ModelMetaclass_new(DateBody(required), DefaultMeta, ch.has, ch.fo) :
        required \in BOOLEAN, ch \in FieldsOrderedChoices(DateBody(FALSE))}

\* values a caller assigns to the fields
DateValues(n) ==
    IF n = "a" THEN {None, PyInt(0), PyInt(MaxValue)}
    ELSE {None, PyDateTime(1)}

InitDate ==
    /\ creation_counter = 3
    /\ attrs = NoFields
    /\ classes \in {<<c>> : c \in DateClasses}
    /\ store_spaces = {}
    /\ store_indexes = {}
    /\ prov = NoProv
    /\ InitRegistry
    /\ data = Model_init(classes[1], NoFields)
    /\ exists_in_db = FALSE
    /\ pk_attr = None
    /\ last = [NoLast EXCEPT !.op = "new"]

\* instance.name = value, for a field name
AssignDate ==
    \E n \in DOMAIN classes[1].fields :
      \E v \in DateValues(n) :
        Apply(Outcome("ok", <<>>,
                      [data EXCEPT ![n] = BaseField_set(classes[1].fields[n], v)],
                      exists_in_db, pk_attr),
              [NoLast EXCEPT !.op = "setattr", !.key = <<n, "">>, !.val = v,
                   !.pre_val = data[n]])

NextDate ==
    \/ AssignDate
    \/ Validate
    \/ Save

SpecDate == InitDate /\ [][NextDate]_vars

(***************************************************************************)
(* One field: its constructor, validate and the conversions, applied to    *)
(* values of every modelled type.                                          *)
(***************************************************************************)
\* what a caller passes as min_value / max_value
BoundValues ==
    {None, PyBig(-1), PyBig(1)} \cup {PyInt(i) : i \in -1..MaxValue}

\* what a caller passes to validate, to_db and to_python
ConvValues ==
    {None, PyBool(FALSE), PyBool(TRUE), PyStr(0), PyStr(1), PyNumStr(1),
     PyDateTime(1), PyList(<<>>), PyList(<<1>>), PyList(<<1, 1>>),
     PyList(<<2, 1>>)}
        \cup {PyInt(i) : i \in -2..(MaxValue + 1)}

\* the statement `a = Kind(...)`: the constructor call and its outcome
Construct ==
    /\ attrs = NoFields
    /\ \E kind \in Kinds \ {"ListField"}, required \in BOOLEAN,
          min_value \in BoundValues, max_value \in BoundValues :
          LET raises == kind = "Num32Field"
                          /\ Num32Field_bounds(min_value, max_value).raises
              kw == [required |-> required, default |-> None,
                     primary_key |-> FALSE, db_index |-> None]
              made == IF kind = "Num32Field"
                      THEN Num32Field_init(min_value, max_value, kw,
                                           creation_counter)
                      ELSE NewField(kind, required, FALSE, None, None,
                                    creation_counter)
          IN  /\ kind # "Num32Field" => min_value = None /\ max_value = None
              /\ attrs' = IF raises THEN attrs ELSE ("a" :> made)
              /\ creation_counter' = IF raises THEN creation_counter
                                     ELSE CounterAfter(kind, creation_counter)
              /\ last' = [NoLast EXCEPT
                             !.op = kind,
                             !.outcome = IF raises THEN "ValueError" ELSE "ok",
                             !.kwargs = [min_value |-> min_value,
                                         max_value |-> max_value]]
    /\ UNCHANGED <<classes, store_spaces, store_indexes, prov, data,
                   exists_in_db, pk_attr, connVars>>

\* field.validate(value)
FieldValidate ==
    /\ "a" \in DOMAIN attrs
    /\ \E v \in ConvValues :
          last' = [last EXCEPT !.op = "validate", !.val = v,
                               !.outcome = Field_validate(attrs["a"], v),
                               !.result = <<>>]
    /\ UNCHANGED <<declVars, data, exists_in_db, pk_attr, connVars>>

\* field.to_python(field.to_db(value))
FieldRoundTrip ==
    /\ "a" \in DOMAIN attrs
    /\ \E v \in ConvValues :
          LET field == attrs["a"]
              stored == Field_to_db(field, v)
          IN  IF Field_to_db_error(field, v) # ""
              THEN last' = [last EXCEPT !.op = "roundtrip", !.val = v,
                               !.outcome = Field_to_db_error(field, v),
                               !.result = <<>>]
              ELSE IF Field_to_python_error(field, stored) # ""
              THEN last' = [last EXCEPT !.op = "roundtrip", !.val = v,
                               !.outcome = Field_to_python_error(field, stored),
                               !.result = <<>>]
              ELSE \E back \in Field_to_python_choices(field, stored) :
                      last' = [last EXCEPT !.op = "roundtrip", !.val = v,
                                  !.outcome = "ok", !.result = <<back>>]
    /\ UNCHANGED <<declVars, data, exists_in_db, pk_attr, connVars>>

NextField ==
    \/ Construct
    \/ FieldValidate
    \/ FieldRoundTrip

SpecField == InitDecl /\ [][NextField]_vars

(***************************************************************************)
(* The Store's side of an update instruction.                              *)
(***************************************************************************)
\* the value a tuple position holds after the Store applied (sym, -, arg)
StoreApply(sym, old, arg) ==
    IF sym = "+" THEN PyInt(old[2] + arg[2]) ELSE arg

(***************************************************************************)
(* Properties.                                                             *)
(***************************************************************************)
\* _fields_ordered exists and lists the fields in strictly ascending
\* creation order
SortedByCounter(cls) ==
    /\ cls.has_fields_ordered
    /\ Len(cls.fields_ordered) = Cardinality(DOMAIN cls.fields)
    /\ Range(cls.fields_ordered) = DOMAIN cls.fields
    /\ \A i, j \in DOMAIN cls.fields_ordered :
          i < j => cls.fields[cls.fields_ordered[i]].creation_counter
                      < cls.fields[cls.fields_ordered[j]].creation_counter

\* C1: a create_space or create_index call that the Store answers with its
\* 'already exists' error (10 for a space, 85 for an index) returns normally
C1_IdempotentProvisioning ==
    (\/ prov.op = "create_space" /\ prov.answer = ER_SPACE_EXISTS
     \/ prov.op = "create_index" /\ prov.answer = ER_INDEX_EXISTS)
        => prov.outcome = "ok"

\* C2: every declared model has _fields_ordered, a duplicate-free permutation
\* of the keys of _fields in strictly ascending creation order
C2_FieldsOrdered ==
    \A c \in DOMAIN classes : SortedByCounter(classes[c])

\* C3: for every field named in create_index(fields=...), the part number
\* emitted is the field's 1-based position: field_name(part number) is the
\* field's name.  Stated for the models whose _fields_ordered is in creation
\* order, so that it does not rest on C2
C3_PartNumberIsPosition ==
    (/\ prov.op = "create_index"
     /\ prov.outcome # "AttributeError"
     /\ SortedByCounter(classes[prov.cls]))
        => \A i \in DOMAIN prov.parts :
              field_name(classes[prov.cls], prov.parts[i].fieldno)
                  = prov.fields[i]

\* a value outside what the field itself declares: for the numeric field a
\* value outside [min_value, max_value]; the boolean field declares nothing
ViolatesConstraint(field, value) ==
    /\ field.kind = "Num32Field"
    /\ \/ ~CanInt(value)
       \/ Below(IntOf(value), field.min_value)
       \/ Below(field.max_value, IntOf(value))

\* C4: validate() raises ValidationError exactly when a required field has no
\* value or a field that has a value violates its own constraint
C4_RequiredFieldLaw ==
    last.op = "validate" =>
        (last.outcome = "ValidationError"
            <=> \E n \in DOMAIN classes[1].fields :
                   \/ classes[1].fields[n].required /\ data[n] = None
                   \/ data[n] # None
                        /\ ViolatesConstraint(classes[1].fields[n], data[n]))

\* C5: after a successful update(f__add=k), update(f=x) or
\* update(f__assign=x) on a persisted instance the in-memory value of f is
\* the value the Store holds after applying the instruction: v + k, x and x
C5_UpdateReflected ==
    (/\ last.op = "update"
     /\ last.outcome = "ok"
     /\ last.pre_exists
     /\ last.key[2] \in {"", "assign", "add"}
     /\ last.key[2] = "add" => last.pre_val[1] = "int")
        => data[last.key[1]]
              = StoreApply(parse_modificator(last.key), last.pre_val, last.val)

\* the key save() and delete() send: the pk override when it is set, else
\* the value of the primary_key field (a in the classes of Spec)
ExpectedKey == IF Truthy(pk_attr) THEN pk_attr ELSE data["a"]

C6_SaveState ==
    (last.op = "save" /\ last.outcome = "ok") =>
        /\ Len(last.reqs) = 1
        /\ ~last.pre_exists => last.reqs[1].op = "insert"
        /\ last.pre_exists =>
              last.reqs[1].op = "update" /\ last.reqs[1].key = ExpectedKey
        /\ exists_in_db

\* C6: a successful save() issues exactly one request, an insert when
\* _exists_in_db was false and an update keyed by the primary-key value when
\* it was true, and leaves _exists_in_db true; the flag then stays true until
\* a delete (or a new instance), so every later save is an update
C6_SaveProtocol ==
    /\ []C6_SaveState
    /\ [][(exists_in_db /\ last'.op \notin {"delete", "new"})
              => exists_in_db']_vars

C6_Witness ==
    /\ last.op = "save"
    /\ last.outcome = "ok"
    /\ last.pre_exists
    /\ last.reqs[1].op = "update"
    /\ last.reqs[1].key = PyInt(0)

C7_DeleteState ==
    /\ (last.op = "delete" /\ last.outcome = "ok") =>
          /\ Len(last.reqs) = 1
          /\ last.reqs[1].op = "delete"
          /\ last.reqs[1].key = ExpectedKey
          /\ ~exists_in_db
          /\ last.ret <=> last.val[2] >= 1
    /\ (last.op = "delete" /\ last.outcome = "ValueError") =>
          /\ ~Truthy(pk_attr)
          /\ \A n \in DOMAIN classes[1].fields :
                ~classes[1].fields[n].primary_key

\* C7: delete() with a resolvable primary key issues one delete keyed by it,
\* leaves _exists_in_db false whatever row count the Store reports, returns
\* true exactly when that count is at least one, and leaves _data unchanged,
\* so that a save() following it takes the insert path
C7_DeleteProtocol ==
    /\ []C7_DeleteState
    /\ [][last'.op = "delete" => data' = data]_vars
    /\ [][(last.op = "delete" /\ last.outcome = "ok" /\ last'.op = "save"
              /\ last'.reqs # <<>>)
              => last'.reqs[1].op = "insert"]_vars

C7_Witness ==
    /\ last.op = "delete"
    /\ last.outcome = "ok"
    /\ last.pre_exists
    /\ last.val = PyInt(0)
    /\ ~last.ret
    /\ ~exists_in_db

\* C8: filter(field=value) raises FieldError and issues no select for a name
\* that is no field and for a field whose db_index is None; a primary_key
\* field has db_index 0 and passes the index test
C8_IndexBoundFiltering ==
    last.op = "filter" =>
        LET name == last.key[1]
            fields == classes[1].fields
        IN  /\ (name \notin DOMAIN fields \/ fields[name].db_index = None)
                  => /\ last.outcome = "FieldError"
                     /\ last.why \in {"no field", "not indexed"}
                     /\ last.reqs = <<>>
            /\ (name \in DOMAIN fields /\ fields[name].primary_key)
                  => /\ fields[name].db_index = PyInt(0)
                     /\ last.why \notin {"no field", "not indexed"}

C8_Witness ==
    /\ last.op = "filter"
    /\ last.key[1] = "b"
    /\ classes[1].fields["b"].db_index = None
    /\ last.outcome = "FieldError"
    /\ last.reqs = <<>>

\* C9: when filter returns, get returns the single rehydrated instance for
\* one tuple, raises DoesNotExist for none and MultipleObjectsReturned for
\* two or more
C9_CardinalityLaw ==
    (last.op = "get"
        /\ last.outcome \in {"ok", "DoesNotExist", "MultipleObjectsReturned"})
        => /\ last.outcome = "ok" <=> Len(last.response) = 1
           /\ last.outcome = "DoesNotExist" <=> Len(last.response) = 0
           /\ last.outcome = "MultipleObjectsReturned"
                 <=> Len(last.response) >= 2
           /\ last.outcome = "ok" =>
                 last.result
                    = <<[data |-> from_dict(classes[1],
                             values_to_dict(classes[1], last.response[1])),
                         exists_in_db |-> TRUE]>>

C9_Witness ==
    /\ last.op = "get"
    /\ last.outcome = "ok"
    /\ Len(last.response) = 1
    /\ Len(last.result) = 1
    /\ last.result[1].data["a"] = PyInt(1)

\* C10: with the shape check enabled, converting a raw tuple raises FieldError
\* exactly when the tuple has more values than the model declares fields;
\* with the check disabled no FieldError is raised and the extra values are
\* ignored.  Stated for one-tuple answers to the models that have
\* _fields_ordered, so that it does not rest on C2
C10_ShapeCheck ==
    (/\ last.op = "filter"
     /\ last.reqs # <<>>
     /\ last.outcome # "DatabaseError"
     /\ classes[1].has_fields_ordered
     /\ Len(last.response) = 1)
        => LET values == last.response[1]
               count == Cardinality(DOMAIN classes[1].fields)
           IN  IF classes[1].meta.check_tuple_length
               THEN last.outcome = "FieldError" <=> Len(values) > count
               ELSE /\ last.outcome = "ok"
                    /\ last.result[1].data
                          = from_dict(classes[1],
                               values_to_dict(classes[1],
                                   SubSeq(values, 1,
                                          IF Len(values) < count
                                          THEN Len(values) ELSE count)))

\* C12: during create_space and create_index a Store error whose code is not
\* an 'already exists' code (10, 85) reaches the caller as the error object
\* the driver raised: it is neither swallowed nor replaced
C12_OtherErrorsPropagate ==
    (/\ prov.op \in {"create_space", "create_index"}
     /\ prov.answer \notin {0, ER_SPACE_EXISTS, ER_INDEX_EXISTS})
        => prov.outcome = "DatabaseError"

\* the field names some keyword of the last update() names
NamedFields ==
    {k[1] : k \in DOMAIN last.kwargs} \cap DOMAIN classes[1].fields

\* C16: when every keyword of update() carries a known modifier, the
\* instruction list sent has exactly one instruction for each declared field
\* some keyword names and none for another field, in ascending
\* _fields_ordered order, each with the symbol OPERATIONS_MAP gives for the
\* modifier of a keyword naming that field, and that keyword's value
C16_InstructionList ==
    (last.op = "update" /\ last.kwargs # <<>> /\ last.reqs # <<>>) =>
        LET changes == last.reqs[1].changes
            fo == classes[1].fields_ordered
            nameAt(i) == fo[changes[i].field_number + 1]
        IN  /\ Len(changes) = Cardinality(NamedFields)
            /\ {nameAt(i) : i \in DOMAIN changes} = NamedFields
            /\ \A i, j \in DOMAIN changes :
                  i < j => changes[i].field_number < changes[j].field_number
            /\ \A i \in DOMAIN changes :
                  \E k \in DOMAIN last.kwargs :
                     /\ k[1] = nameAt(i)
                     /\ changes[i].sym
                           = OPERATIONS_MAP[IF k[2] = "" THEN "assign" ELSE k[2]]
                     /\ changes[i].value = last.kwargs[k]

C16_Witness ==
    /\ last.op = "update"
    /\ last.outcome = "ok"
    /\ DOMAIN last.kwargs = {<<"a", "add">>, <<"b", "">>}
    /\ classes[1].fields_ordered = <<"b", "a">>
    /\ Len(last.reqs[1].changes) = 2
    /\ last.reqs[1].changes[2].sym = "+"

\* C17: the field_position of an update instruction for field f is f's tuple
\* position as used elsewhere: it is the part number create_index emits for f
\* and field_name(field_position) is f's name.  Stated for the models whose
\* _fields_ordered is in creation order
C17_PositionalContract ==
    (/\ last.op = "update"
     /\ last.kwargs = <<>>
     /\ last.reqs # <<>>
     /\ SortedByCounter(classes[1])) =>
        \A i \in DOMAIN last.reqs[1].changes :
            LET position == last.reqs[1].changes[i].field_number
            IN  /\ field_name(classes[1], position) = last.key[1]
                /\ position
                      = IndexParts(classes[1], <<last.key[1]>>)[1].fieldno

\* C18: a save(), update() or delete() that raises ValidationError or
\* ValueError has sent no request and has left _data and _exists_in_db as
\* they were before the call
C18_ErrorsLeaveState ==
    [][(/\ last'.op \in {"save", "update", "delete"}
        /\ last'.outcome \in {"ValidationError", "ValueError"})
          => /\ last'.reqs = <<>>
             /\ data' = data
             /\ exists_in_db' = exists_in_db]_vars

C18_Witness ==
    /\ last.op = "update"
    /\ last.outcome = "ValueError"
    /\ last.key = <<"a", "incr">>
    /\ Truthy(pk_attr)
    /\ exists_in_db
    /\ data["a"] # None

C14_DefaultsApplyOnce ==
    /\ (/\ last.op \in {"setattr", "setitem"}
        /\ last.outcome = "ok"
        /\ last.pre_val # None)
          => data[last.key[1]] = last.val
    /\ last.op \in {"new", "reset"} =>
          \A n \in DOMAIN last.invoked : last.invoked[n] <= 1

\* Python's ==: numbers compare by value (True == 1), other values by type
\* and content
PyEq(v, w) ==
    IF v[1] \in {"int", "bool"} /\ w[1] \in {"int", "bool"} THEN v[2] = w[2]
    ELSE v = w

\* C11: for every field type and every value v that validate() accepts,
\* to_python(to_db(v)) returns and is equal to v
C11_RoundTrip ==
    (last.op = "roundtrip" /\ Field_validate(attrs["a"], last.val) = "ok")
        => /\ last.outcome = "ok"
           /\ PyEq(last.result[1], last.val)

\* the bound in force for a caller-supplied bound: the width's own when none
\* is supplied
BoundInForce(supplied, natural) ==
    IF supplied = None THEN PyInt(natural) ELSE supplied

\* C15: a Num32Field constructed with bounds inside the 32-bit range (0
\* included) rejects with ValidationError every integer below min_value or
\* above max_value and accepts every integer between them; constructing it
\* with a bound outside the 32-bit range raises ValueError.  Stated for
\* fields that are not required
C15_NumericBounds ==
    LET lo == BoundInForce(last.kwargs.min_value, INT32_MIN)
        hi == BoundInForce(last.kwargs.max_value, INT32_MAX)
    IN  /\ last.op = "Num32Field" =>
              (last.outcome = "ValueError"
                  <=> lo[1] = "big" \/ hi[1] = "big")
        /\ (/\ last.op = "validate"
            /\ attrs["a"].kind = "Num32Field"
            /\ ~attrs["a"].required
            /\ last.val[1] = "int")
              => (last.outcome = "ValidationError"
                    <=> Below(last.val, lo) \/ Below(hi, last.val))

\* C19: a successful save() leaves the in-memory value of every field as it
\* was, on the insert path and on the update path, so that an instance that
\* passes validate() before a save passes it after the save
C19_SaveKeepsValues ==
    [][(last'.op = "save" /\ last'.outcome = "ok")
          => /\ data' = data
             /\ Model_validate(classes[1], data) = "ok"
                   => Model_validate(classes[1], data') = "ok"]_vars

\* ------------------------------------------------------------------------
\* connection.py: the registry of settings, connections and spaces

MaxConnections == 3

DEFAULT_HOST == "localhost"

DEFAULT_PORT == 33013

Aliases == {"default", "card"}

SpaceNames == {"card", "user"}

\* the host and port arguments of connect and register_connection
Hosts == {None, PyStr(1)}

Ports == {None, PyInt(0), PyInt(3301)}

\* del d[key]
Drop(d, key) == [k \in DOMAIN d \ {key} |-> d[k]]

\* d[key] = value
Put(d, key, value) == [k \in DOMAIN d \cup {key} |-> IF k = key THEN value ELSE d[k]]

\* the module-level state as one value
Registry ==
    [settings |-> connection_settings, connections |-> connections,
     spaces |-> spaces, opened |-> opened, closed |-> closed]

\* what a call does: the state it leaves and what it returns or raises
Done(reg, outcome, value) == [reg |-> reg, outcome |-> outcome, value |-> value]

\* Connection.space(space_name): Space(self, space_name)
Connection_space(connection, space_name) ==
    [connection |-> connection, name |-> space_name]

\* the connection object as a return value
ConnectionValue(connection) == [connection |-> connection, name |-> ""]

\* register_connection(alias, host, port)
register_connection(reg, alias, host, port) ==
    LET conn_settings ==
            [host |-> IF Truthy(host) THEN "given" ELSE DEFAULT_HOST,
             port |-> IF Truthy(port) THEN port[2] ELSE DEFAULT_PORT]
    IN  [reg EXCEPT !.settings = Put(@, alias, conn_settings)]

\* disconnect(alias)
disconnect(reg, alias) ==
    LET r1 == IF alias \in DOMAIN reg.connections
              THEN [reg EXCEPT !.closed = @ \cup {reg.connections[alias]},
                               !.connections = Drop(@, alias)]
              ELSE reg
    IN  IF alias \in DOMAIN r1.spaces
        THEN [r1 EXCEPT !.spaces = Drop(@, alias)]
        ELSE r1

\* get_connection(alias, reconnect); reachable: the server accepts
get_connection(reg, alias, reconnect, reachable) ==
    LET r1 == IF reconnect THEN disconnect(reg, alias) ELSE reg
    IN  IF alias \in DOMAIN r1.connections
        THEN Done(r1, "ok", ConnectionValue(r1.connections[alias]))
        ELSE IF alias \notin DOMAIN r1.settings
        THEN Done(r1, "ValueError", ConnectionValue(0))
        ELSE IF ~reachable
        THEN Done(r1, "ConnectionError", ConnectionValue(0))
        ELSE LET new == r1.opened + 1
             IN  Done([r1 EXCEPT !.opened = new,
                                 !.connections = Put(@, alias, new)],
                      "ok", ConnectionValue(new))

\* get_space(space, alias, reconnect)
get_space(reg, space, alias, reconnect, reachable) ==
    LET r1 == IF reconnect THEN disconnect(reg, alias) ELSE reg
    IN  IF space \in DOMAIN r1.spaces
        THEN Done(r1, "ok", r1.spaces[space])
        ELSE LET c == get_connection(r1, alias, FALSE, reachable)
             IN  IF c.outcome # "ok"
                 THEN c
                 ELSE LET sp == Connection_space(c.value.connection, space)
                      IN  Done([c.reg EXCEPT !.spaces = Put(@, space, sp)],
                               "ok", sp)

\* connect(alias, host=..., port=...)
connect(reg, alias, host, port, reachable) ==
    IF alias \in DOMAIN reg.connections
    THEN get_connection(reg, alias, FALSE, reachable)
    ELSE IF port = None    \* int(port) raises TypeError
    THEN Done(reg, "TypeError", ConnectionValue(0))
    ELSE get_connection(register_connection(reg, alias, host, port), alias,
                        FALSE, reachable)

\* a call of the module ends: its state and its result are recorded
ApplyConn(d, op, alias, space) ==
    /\ d.reg.opened <= MaxConnections
    /\ connection_settings' = d.reg.settings
    /\ connections' = d.reg.connections
    /\ spaces' = d.reg.spaces
    /\ opened' = d.reg.opened
    /\ closed' = d.reg.closed
    /\ returned' = [op |-> op, alias |-> alias, space |-> space,
                    outcome |-> d.outcome, value |-> d.value]
    /\ UNCHANGED <<declVars, instVars>>

Connect ==
    \E alias \in Aliases, host \in Hosts, port \in Ports, reachable \in BOOLEAN :
        ApplyConn(connect(Registry, alias, host, port, reachable),
                  "connect", alias, "")

Disconnect ==
    \E alias \in Aliases :
        ApplyConn(Done(disconnect(Registry, alias), "ok",
                       ConnectionValue(0)),
                  "disconnect", alias, "")

GetConnection ==
    \E alias \in Aliases, reconnect \in BOOLEAN, reachable \in BOOLEAN :
        ApplyConn(get_connection(Registry, alias, reconnect, reachable),
                  "get_connection", alias, "")

GetSpace ==
    \E space \in SpaceNames, alias \in Aliases, reconnect \in BOOLEAN,
       reachable \in BOOLEAN :
        ApplyConn(get_space(Registry, space, alias, reconnect, reachable),
                  "get_space", alias, space)

NextConn ==
    \/ Connect
    \/ Disconnect
    \/ GetConnection
    \/ GetSpace

SpecConn == InitDecl /\ [][NextConn]_vars

\* C20: the Space that get_space(space, alias) returns is bound to the
\* connection that is registered for that alias when the call returns, and
\* that connection has not been closed
C20_SpaceOfOpenConnection ==
    (returned.op = "get_space" /\ returned.outcome = "ok")
        => /\ returned.alias \in DOMAIN connections
           /\ returned.value.connection = connections[returned.alias]
           /\ returned.value.connection \notin closed
====
